---- MODULE Spec2Model ----
(***************************************************************************)
(* Ownership and lifetime protocol of inkwell's ExecutionEngine            *)
(* (src/src/execution_engine.rs): the reference-counted engine handle,     *)
(* ExecutionEngine values and their clones, Symbols, and the               *)
(* owned_by_ee / module slots of Module that add_module and remove_module  *)
(* read and write.  The LLVM backend is the environment: its answers are   *)
(* drawn nondeterministically from what the C API can return.              *)
(***************************************************************************)
EXTENDS Bags, FiniteSets, Integers, Sequences, TLC

VARIABLES
    llvm_feature,   \* the cargo feature the crate is built with (cfg at line 291)
    constructed,    \* [Handles -> BOOLEAN]: the jit_mode each engine was constructed with
    strong,         \* [Handles -> Int]: Rc::strong_count of each Rc<LLVMExecutionEngineRef>
    disposed,       \* [Handles -> Nat]: calls of LLVMDisposeExecutionEngine on each handle
    engines,        \* bag of the ExecutionEngine values the caller holds
    symbols,        \* bag of the Symbol values the caller holds
    owned_by_ee,    \* [Modules -> Option<ExecutionEngine>]: Module::owned_by_ee
    module,         \* [Modules -> native module ref]: Module::module
    registered,     \* [Handles -> SUBSET Modules]: modules the backend holds for each engine
    threads,        \* [Threads -> drop in progress]: holders whose drop runs step by step
    last            \* the last call: operation, arguments, result and native calls made

vars == <<llvm_feature, constructed, threads, strong, disposed, engines, symbols,
          owned_by_ee, module, registered, last>>

----------------------------------------------------------------------------
(* Bounds and universes *)

\* Largest Rc strong count the caller lets a handle reach.
MaxRefs == 3

Handles == {"eeA", "eeB"}
Modules == {"m1", "m2"}
Names == {"f1", "nonexistent"}
Features == {"llvm4-0", "llvm5-0", "llvm6-0"}
Threads == {"t1", "t2"}

\* The jit_mode each engine is constructed with: one JIT engine, one interpreter.
JitModeOf(h) == h = "eeA"

\* Option<T> as a set of at most one element.
None == {}
Some(x) == {x}
Unwrap(o) == CHOOSE x \in o : TRUE

\* The null native handle.
Null == "null"

NoCall ==
    [op |-> "-", ee |-> "-", jit |-> FALSE, m |-> "-", name |-> "-", raw |-> "-",
     result |-> "-", native |-> <<>>]

\* A step of a call that is recorded with the native calls it makes.
Event(fn) == [fn |-> fn, code |-> 0, out |-> 0]

----------------------------------------------------------------------------
(* The backend (LLVM C API), as far as the wrapper observes it *)

\* The functions each module defines.
FunctionsOf(m) == IF m = "m1" THEN {"f1"} ELSE {}

\* The native module ref a Module starts with, and the other ref the backend
\* may hand back for it from LLVMRemoveModule.
InitialRef(m) == IF m = "m1" THEN 1 ELSE 2
DetachedRef(m) == IF m = "m1" THEN 3 ELSE 4

\* Non-null function descriptor and non-zero address of a function.
FunctionRef(name) == IF name = "f1" THEN 11 ELSE 12
Address(name) == IF name = "f1" THEN 101 ELSE 102

\* The backend knows a name in an engine iff a module added to it defines it.
Known(h, name) == \E m \in registered[h] : name \in FunctionsOf(m)

\* LLVMFindFunction: the (code, *OutFn) pairs it can return.
LLVMFindFunction(h, name) ==
    IF Known(h, name)
    THEN {[code |-> 0, out |-> FunctionRef(name)]}
    ELSE {[code |-> 1, out |-> 0], [code |-> 0, out |-> 0]}

\* LLVMGetFunctionAddress: segfaults in llvm 5.0 & 6.0 when the name does not
\* exist; can also return 0 if no targets are initialized.
LLVMGetFunctionAddress(h, name) ==
    IF Known(h, name)
    THEN {[crash |-> FALSE, out |-> Address(name)], [crash |-> FALSE, out |-> 0]}
    ELSE IF llvm_feature \in {"llvm5-0", "llvm6-0"}
         THEN {[crash |-> TRUE, out |-> 0]}
         ELSE {[crash |-> FALSE, out |-> 0]}

\* LLVMRemoveModule: the (code, *OutMod) pairs it can return.
LLVMRemoveModule(h, m) ==
    {[code |-> 0, out |-> r] : r \in {InitialRef(m), DetachedRef(m)}}
        \cup {[code |-> 1, out |-> 0]}

----------------------------------------------------------------------------
(* ExecutionEngine, ExecEngineInner, Symbol *)

\* The target data the backend returns for an engine.
TargetDataRef(h) == IF h = "eeA" THEN 31 ELSE 32

\* ExecutionEngine::new without its assertion.
ExecutionEngine_new_assert_off(rc) == TRUE

\* assert!(!execution_engine.is_null())
ExecutionEngine_new_assert(rc) == rc # Null

\* A constructor that copies the cached target data instead of asking for it.
ExecutionEngine_new_events_cached(h) == <<Event("assert_non_null")>>

\* What ExecutionEngine::new does before it builds the value: the assertion
\* and the LLVMGetExecutionEngineTargetData query.
ExecutionEngine_new_events(h) ==
    <<Event("assert_non_null"),
      [fn |-> "LLVMGetExecutionEngineTargetData", code |-> 0, out |-> TargetDataRef(h)]>>

\* ExecutionEngine::new: the handle is non-null, the target data is cached.
ExecutionEngine_new(h, jit_mode) ==
    [execution_engine |-> h,
     target_data |-> Some(<<"TargetData", h>>),
     jit_mode |-> jit_mode]

\* A clone that does not carry the jit_mode over.
ExecutionEngine_clone_jit(self) ==
    ExecutionEngine_new(self.execution_engine, TRUE)

\* A clone that moves the target data out of the original's copy.
ExecutionEngine_clone_taken(self) ==
    [execution_engine |-> self.execution_engine,
     target_data |-> None,
     jit_mode |-> self.jit_mode]

\* impl Clone for ExecutionEngine: the value the clone returns.
ExecutionEngine_clone(self) ==
    ExecutionEngine_new(self.execution_engine, self.jit_mode)

\* A copy of the handle that is not counted.
Rc_clone_uncounted(h) == UNCHANGED strong

\* Rc::clone of the handle.
Rc_clone(h) == strong' = [strong EXCEPT ![h] = @ + 1]

\* A drop that disposes one reference too early.
ExecEngineInner_drop_early(h) ==
    /\ disposed' = [disposed EXCEPT ![h] = IF strong[h] <= 2 THEN @ + 1 ELSE @]
    /\ strong' = [strong EXCEPT ![h] = @ - 1]

\* impl Drop for ExecEngineInner, then the drop of its Rc field.
ExecEngineInner_drop(h) ==
    /\ disposed' = [disposed EXCEPT ![h] = IF strong[h] = 1 THEN @ + 1 ELSE @]
    /\ strong' = [strong EXCEPT ![h] = @ - 1]

\* The release of one handle reference as the call records it: the drop of the
\* ExecEngineInner and, when it fired, the native disposal.
Released(h) ==
    <<Event("ExecEngineInner::drop")>>
        \o IF disposed'[h] > disposed[h]
           THEN <<Event("LLVMDisposeExecutionEngine")>>
           ELSE <<>>

\* A drop that lets the TargetData run its own release routine.
ExecutionEngine_drop_events_released(self) ==
    <<Event("Option::take"), Event("TargetData::drop")>>

\* impl Drop for ExecutionEngine: the target data is taken and forgotten.
ExecutionEngine_drop_events(self) ==
    <<Event("Option::take"), Event("forget")>>

\* A thread that has been given no holder to drop.
Idle == [pc |-> "idle", self |-> None, seen |-> 0]

Add(bag, x) == bag (+) SetToBag({x})
Remove(bag, x) == bag (-) SetToBag({x})

Init ==
    /\ llvm_feature \in Features
    /\ constructed = [h \in Handles |-> JitModeOf(h)]
    /\ strong = [h \in Handles |-> 1]
    /\ disposed = [h \in Handles |-> 0]
    /\ engines = SetToBag({ExecutionEngine_new(h, constructed[h]) : h \in Handles})
    /\ symbols = EmptyBag
    /\ owned_by_ee = [m \in Modules |-> None]
    /\ module = [m \in Modules |-> InitialRef(m)]
    /\ registered = [h \in Handles |-> {}]
    /\ threads = [t \in Threads |-> Idle]
    /\ last = NoCall

\* let e2 = self.clone();
clone(self) ==
    /\ strong[self.execution_engine] < MaxRefs
    /\ Rc_clone(self.execution_engine)
    /\ engines' = Add(engines, ExecutionEngine_clone(self))
    /\ last' = [NoCall EXCEPT !.op = "clone", !.ee = self.execution_engine,
                            !.native = ExecutionEngine_new_events(self.execution_engine)]
    /\ UNCHANGED <<llvm_feature, constructed, threads, disposed, symbols, owned_by_ee,
                   module, registered>>

\* impl Drop for ExecutionEngine (target_data taken and forgotten), then the
\* drop of its execution_engine field.
drop(self) ==
    /\ self.target_data # None
    /\ ExecEngineInner_drop(self.execution_engine)
    /\ engines' = Remove(engines, self)
    /\ last' = [NoCall EXCEPT !.op = "drop", !.ee = self.execution_engine,
                            !.native = ExecutionEngine_drop_events(self)
                                           \o Released(self.execution_engine)]
    /\ UNCHANGED <<llvm_feature, constructed, threads, symbols, owned_by_ee, module,
                   registered>>

\* #[derive(Clone)] on Symbol: clones the ExecEngineInner (Rc::clone), copies inner.
Symbol_clone(sym) ==
    /\ strong[sym._execution_engine] < MaxRefs
    /\ Rc_clone(sym._execution_engine)
    /\ symbols' = Add(symbols, sym)
    /\ last' = [NoCall EXCEPT !.op = "Symbol_clone", !.ee = sym._execution_engine]
    /\ UNCHANGED <<llvm_feature, constructed, threads, disposed, engines, owned_by_ee,
                   module, registered>>

\* Drop of a Symbol: the drop of its _execution_engine field.
Symbol_drop(sym) ==
    /\ ExecEngineInner_drop(sym._execution_engine)
    /\ symbols' = Remove(symbols, sym)
    /\ last' = [NoCall EXCEPT !.op = "Symbol_drop", !.ee = sym._execution_engine,
                            !.native = Released(sym._execution_engine)]
    /\ UNCHANGED <<llvm_feature, constructed, threads, engines, owned_by_ee, module,
                   registered>>

----------------------------------------------------------------------------
(* Module adoption and eviction *)

Call(op, self) ==
    [NoCall EXCEPT !.op = op, !.ee = self.execution_engine, !.jit = self.jit_mode]

NativeCall(fn, code, out) == [fn |-> fn, code |-> code, out |-> out]

\* add_module with the ownership check left out: the owner is overwritten.
add_module_overwrite(self, m) ==
    LET h == self.execution_engine
    IN  /\ strong[h] < MaxRefs
        /\ registered' = [registered EXCEPT ![h] = @ \cup {m}]
        /\ strong' = [strong EXCEPT ![h] = @ + 1]
        /\ owned_by_ee' = [owned_by_ee EXCEPT ![m] = Some(ExecutionEngine_clone(self))]
        /\ last' = [Call("add_module", self) EXCEPT
                       !.m = m, !.result = "Ok",
                       !.native = <<NativeCall("LLVMAddModule", 0, module[m])>>]
        /\ UNCHANGED <<llvm_feature, constructed, threads, disposed, engines, symbols, module>>

\* add_module that tests the slot before it registers the module.
add_module_check_first(self, m) ==
    LET h == self.execution_engine
        call == [Call("add_module", self) EXCEPT !.m = m]
    IN  /\ owned_by_ee[m] = None => strong[h] < MaxRefs
        /\ IF owned_by_ee[m] # None
           THEN /\ last' = [call EXCEPT !.result = "Err"]
                /\ UNCHANGED <<strong, owned_by_ee, registered>>
           ELSE /\ registered' = [registered EXCEPT ![h] = @ \cup {m}]
                /\ Rc_clone(h)
                /\ owned_by_ee' = [owned_by_ee EXCEPT ![m] = Some(ExecutionEngine_clone(self))]
                /\ last' = [call EXCEPT
                               !.result = "Ok",
                               !.native = <<NativeCall("LLVMAddModule", 0, module[m])>>
                                              \o ExecutionEngine_new_events(h)]
        /\ UNCHANGED <<llvm_feature, constructed, threads, disposed, engines, symbols, module>>

\* add_module that clones the engine before it tests the slot and keeps the
\* reference when it refuses the module.
add_module_clone_first(self, m) ==
    LET h == self.execution_engine
        call == [Call("add_module", self) EXCEPT
                    !.m = m, !.native = <<NativeCall("LLVMAddModule", 0, module[m])>>]
    IN  /\ strong[h] < MaxRefs
        /\ registered' = [registered EXCEPT ![h] = @ \cup {m}]
        /\ Rc_clone(h)
        /\ IF owned_by_ee[m] # None
           THEN /\ last' = [call EXCEPT !.result = "Err"]
                /\ UNCHANGED owned_by_ee
           ELSE /\ owned_by_ee' = [owned_by_ee EXCEPT ![m] = Some(ExecutionEngine_clone(self))]
                /\ last' = [call EXCEPT !.result = "Ok",
                                        !.native = @ \o ExecutionEngine_new_events(h)]
        /\ UNCHANGED <<llvm_feature, constructed, threads, disposed, engines, symbols, module>>

\* ExecutionEngine::add_module
add_module(self, m) ==
    LET h == self.execution_engine
        call == [Call("add_module", self) EXCEPT
                    !.m = m, !.native = <<NativeCall("LLVMAddModule", 0, module[m])>>]
    IN  /\ owned_by_ee[m] = None => strong[h] < MaxRefs
        /\ registered' = [registered EXCEPT ![h] = @ \cup {m}]
        /\ IF owned_by_ee[m] # None
           THEN /\ last' = [call EXCEPT !.result = "Err"]
                /\ UNCHANGED <<strong, owned_by_ee>>
           ELSE /\ Rc_clone(h)
                /\ owned_by_ee' = [owned_by_ee EXCEPT ![m] = Some(ExecutionEngine_clone(self))]
                /\ last' = [call EXCEPT !.result = "Ok",
                                        !.native = @ \o ExecutionEngine_new_events(h)]
        /\ UNCHANGED <<llvm_feature, constructed, threads, disposed, engines, symbols, module>>

\* The ownership match with the handles compared the wrong way round.
remove_module_check_inverted(self, m) ==
    IF owned_by_ee[m] # None
           /\ Unwrap(owned_by_ee[m]).execution_engine = self.execution_engine
    THEN "IncorrectModuleOwner"
    ELSE IF owned_by_ee[m] = None THEN "ModuleNotOwned" ELSE "pass"

\* The match on module.owned_by_ee that opens remove_module.
remove_module_check(self, m) ==
    IF owned_by_ee[m] # None
           /\ Unwrap(owned_by_ee[m]).execution_engine # self.execution_engine
    THEN "IncorrectModuleOwner"
    ELSE IF owned_by_ee[m] = None THEN "ModuleNotOwned" ELSE "pass"

\* The failure test with the wrong code: a failed removal is taken for a success.
remove_module_failed_never(code) == code = 2

\* if code == 1
remove_module_failed(code) == code = 1

\* The success path without module.module.set(new_module).
remove_module_commit_noset(m, new_module) ==
    /\ UNCHANGED module
    /\ owned_by_ee' = [owned_by_ee EXCEPT ![m] = None]
    /\ ExecEngineInner_drop(Unwrap(owned_by_ee[m]).execution_engine)

\* The success path with the slot's ExecutionEngine forgotten, not dropped.
remove_module_commit_forgotten(m, new_module) ==
    /\ module' = [module EXCEPT ![m] = new_module]
    /\ owned_by_ee' = [owned_by_ee EXCEPT ![m] = None]
    /\ UNCHANGED <<strong, disposed>>

\* The success path of remove_module: the native ref is replaced, the slot is
\* cleared, and the ExecutionEngine the slot held is dropped.
remove_module_commit(m, new_module) ==
    /\ module' = [module EXCEPT ![m] = new_module]
    /\ owned_by_ee' = [owned_by_ee EXCEPT ![m] = None]
    /\ ExecEngineInner_drop(Unwrap(owned_by_ee[m]).execution_engine)

\* remove_module that asks the backend before it validates the owner.
remove_module_native_first(self, m) ==
    LET h == self.execution_engine
        check == remove_module_check(self, m)
    IN  \E r \in LLVMRemoveModule(h, m) :
        LET done == [Call("remove_module", self) EXCEPT
                        !.m = m,
                        !.native = <<NativeCall("LLVMRemoveModule", r.code, r.out)>>]
        IN  /\ registered' = [registered EXCEPT
                                 ![h] = IF r.code = 0 THEN @ \ {m} ELSE @]
            /\ IF check # "pass"
               THEN /\ last' = [done EXCEPT !.result = check]
                    /\ UNCHANGED <<strong, disposed, owned_by_ee, module>>
               ELSE IF remove_module_failed(r.code)
               THEN /\ last' = [done EXCEPT !.result = "LLVMError"]
                    /\ UNCHANGED <<strong, disposed, owned_by_ee, module>>
               ELSE /\ remove_module_commit(m, r.out)
                    /\ last' = [done EXCEPT !.result = "Ok"]
            /\ UNCHANGED <<llvm_feature, constructed, threads, engines, symbols>>

\* ExecutionEngine::remove_module
remove_module(self, m) ==
    LET h == self.execution_engine
        call == [Call("remove_module", self) EXCEPT !.m = m]
        check == remove_module_check(self, m)
    IN  IF check # "pass"
        THEN /\ last' = [call EXCEPT !.result = check]
             /\ UNCHANGED <<llvm_feature, constructed, threads, strong, disposed, engines,
                            symbols, owned_by_ee, module, registered>>
        ELSE \E r \in LLVMRemoveModule(h, m) :
             LET done == [call EXCEPT
                            !.native = <<NativeCall("LLVMRemoveModule", r.code, r.out)>>]
             IN  /\ registered' = [registered EXCEPT
                                      ![h] = IF r.code = 0 THEN @ \ {m} ELSE @]
                 /\ IF remove_module_failed(r.code)
                    THEN /\ last' = [done EXCEPT !.result = "LLVMError"]
                         /\ UNCHANGED <<strong, disposed, owned_by_ee, module>>
                    ELSE /\ remove_module_commit(m, r.out)
                         /\ last' = [done EXCEPT
                                        !.result = "Ok",
                                        !.native = @ \o ExecutionEngine_drop_events(
                                                            Unwrap(owned_by_ee[m]))
                                                     \o Released(
                                                            Unwrap(owned_by_ee[m])
                                                                .execution_engine)]
                 /\ UNCHANGED <<llvm_feature, constructed, threads, engines, symbols>>

----------------------------------------------------------------------------
(* Function lookup *)

\* get_function_value without the jit_mode test.
get_function_value_ret_ungated(self, name, ff) ==
    LET native == <<NativeCall("LLVMFindFunction", ff.code, ff.out)>>
    IN  IF ff.code = 0
        THEN [result |-> IF ff.out # 0 THEN "Ok" ELSE "FunctionNotFound",
              value |-> ff.out, native |-> native]
        ELSE [result |-> "FunctionNotFound", value |-> 0, native |-> native]

\* get_function_value that trusts the success code without looking at the
\* descriptor.
get_function_value_ret_unchecked(self, name, ff) ==
    IF ~self.jit_mode
    THEN [result |-> "JITNotEnabled", value |-> 0, native |-> <<>>]
    ELSE [result |-> IF ff.code = 0 THEN "Ok" ELSE "FunctionNotFound",
          value |-> ff.out,
          native |-> <<NativeCall("LLVMFindFunction", ff.code, ff.out)>>]

\* ExecutionEngine::get_function_value, given the backend's answer ff: the
\* result, the FunctionValue and the native calls made.
get_function_value_ret(self, name, ff) ==
    IF ~self.jit_mode
    THEN [result |-> "JITNotEnabled", value |-> 0, native |-> <<>>]
    ELSE LET native == <<NativeCall("LLVMFindFunction", ff.code, ff.out)>>
         IN  IF ff.code = 0
             THEN \* FunctionValue::new(function).ok_or(FunctionNotFound)
                  [result |-> IF ff.out # 0 THEN "Ok" ELSE "FunctionNotFound",
                   value |-> ff.out, native |-> native]
             ELSE [result |-> "FunctionNotFound", value |-> 0, native |-> native]

\* ExecutionEngine::get_function_value
get_function_value(self, name) ==
    \E ff \in LLVMFindFunction(self.execution_engine, name) :
        LET ret == get_function_value_ret(self, name, ff)
        IN  /\ last' = [Call("get_function_value", self) EXCEPT
                           !.name = name, !.result = ret.result, !.native = ret.native]
            /\ UNCHANGED <<llvm_feature, constructed, threads, strong, disposed, engines,
                           symbols, owned_by_ee, module, registered>>

\* The workaround compiled for llvm 6.0 only.
Workaround_llvm6_only == llvm_feature \in {"llvm6-0"}

\* #[cfg(any(feature = "llvm5-0", feature = "llvm6-0"))]
Workaround == llvm_feature \in {"llvm5-0", "llvm6-0"}

\* A Symbol that keeps the handle without cloning the Rc.
Symbol_new_uncounted(h, address) ==
    /\ UNCHANGED strong
    /\ symbols' = Add(symbols, [_execution_engine |-> h, inner |-> address])

\* Ok(Symbol { _execution_engine: self.execution_engine.clone(), inner: .. })
Symbol_new(h, address) ==
    /\ Rc_clone(h)
    /\ symbols' = Add(symbols, [_execution_engine |-> h, inner |-> address])

\* ExecutionEngine::get_function.  size_of::<F>() == size_of::<usize>() holds
\* of every F the sealed UnsafeFunctionPointer admits.
get_function(self, name) ==
    LET h == self.execution_engine
        call == [Call("get_function", self) EXCEPT !.name = name]
        same == <<llvm_feature, constructed, threads, strong, disposed, engines, symbols,
                  owned_by_ee, module, registered>>
    IN  IF ~self.jit_mode
        THEN /\ last' = [call EXCEPT !.result = "JITNotEnabled"]
             /\ UNCHANGED same
        ELSE \E ff \in LLVMFindFunction(h, name) :
             LET pre == IF Workaround
                        THEN get_function_value_ret(self, name, ff)
                        ELSE [result |-> "Ok", value |-> 0, native |-> <<>>]
             IN  IF pre.result # "Ok"
                 THEN \* self.get_function_value(fn_name)?
                      /\ last' = [call EXCEPT !.result = pre.result, !.native = pre.native]
                      /\ UNCHANGED same
                 ELSE \E a \in LLVMGetFunctionAddress(h, name) :
                      LET native == Append(pre.native,
                                           NativeCall("LLVMGetFunctionAddress", 0, a.out))
                      IN  IF a.crash
                          THEN /\ last' = [call EXCEPT !.result = "segfault", !.native = native]
                               /\ UNCHANGED same
                          ELSE IF a.out = 0
                          THEN /\ last' = [call EXCEPT !.result = "FunctionNotFound",
                                                       !.native = native]
                               /\ UNCHANGED same
                          ELSE /\ strong[h] < MaxRefs
                               /\ Symbol_new(h, a.out)
                               /\ last' = [call EXCEPT !.result = "Ok", !.native = native]
                               /\ UNCHANGED <<llvm_feature, constructed, threads, disposed, engines,
                                              owned_by_ee, module, registered>>

----------------------------------------------------------------------------
(* Construction, target data and the forwarding calls *)

\* Everything but the record of the call.
state == <<llvm_feature, constructed, threads, strong, disposed, engines, symbols,
           owned_by_ee, module, registered>>

\* ExecutionEngine::new on a raw handle the collaborator passes in.  A failed
\* assertion unwinds before any value exists; otherwise the value wraps the
\* Rc as the caller counted it.
new(rc, jit_mode) ==
    LET call == [NoCall EXCEPT !.op = "ExecutionEngine::new", !.raw = rc,
                               !.jit = jit_mode]
    IN  IF ~ExecutionEngine_new_assert(rc)
        THEN /\ last' = [call EXCEPT !.result = "panic",
                                     !.native = <<Event("assert_non_null")>>]
             /\ UNCHANGED state
        ELSE /\ engines' = Add(engines, ExecutionEngine_new(rc, jit_mode))
             /\ last' = [call EXCEPT !.result = "Ok",
                                     !.native = ExecutionEngine_new_events(rc)]
             /\ UNCHANGED <<llvm_feature, constructed, threads, strong, disposed, symbols,
                            owned_by_ee, module, registered>>

\* assert!(!float_type.is_null())
FloatType_new_assert(float_type) == float_type # Null

\* FloatType::new
FloatType_new(float_type) ==
    /\ last' = [NoCall EXCEPT
                   !.op = "FloatType::new", !.raw = float_type,
                   !.result = IF FloatType_new_assert(float_type) THEN "Ok" ELSE "panic",
                   !.native = <<Event("assert_non_null")>>]
    /\ UNCHANGED state

\* ExecutionEngine::get_target_data
get_target_data(self) ==
    /\ last' = [Call("get_target_data", self) EXCEPT
                   !.result = IF self.target_data # None THEN "Ok" ELSE "panic"]
    /\ UNCHANGED state

\* ExecutionEngine::add_global_mapping
add_global_mapping(self, value, addr) ==
    /\ last' = [Call("add_global_mapping", self) EXCEPT
                   !.native = <<NativeCall("LLVMAddGlobalMapping", value, addr)>>]
    /\ UNCHANGED state

\* A free_fn_machine_code that tears the engine down with the function.
free_fn_machine_code_disposing(self, function) ==
    /\ disposed' = [disposed EXCEPT ![self.execution_engine] = @ + 1]
    /\ last' = [Call("free_fn_machine_code", self) EXCEPT
                   !.native = <<NativeCall("LLVMFreeMachineCodeForFunction", 0, function),
                                Event("LLVMDisposeExecutionEngine")>>]
    /\ UNCHANGED <<llvm_feature, constructed, threads, strong, engines, symbols, owned_by_ee,
                   module, registered>>

\* ExecutionEngine::free_fn_machine_code
free_fn_machine_code(self, function) ==
    /\ last' = [Call("free_fn_machine_code", self) EXCEPT
                   !.native = <<NativeCall("LLVMFreeMachineCodeForFunction", 0, function)>>]
    /\ UNCHANGED state

\* ExecutionEngine::run_static_constructors
run_static_constructors(self) ==
    /\ last' = [Call("run_static_constructors", self) EXCEPT
                   !.native = <<Event("LLVMRunStaticConstructors")>>]
    /\ UNCHANGED state

\* ExecutionEngine::run_static_destructors
run_static_destructors(self) ==
    /\ last' = [Call("run_static_destructors", self) EXCEPT
                   !.native = <<Event("LLVMRunStaticDestructors")>>]
    /\ UNCHANGED state

----------------------------------------------------------------------------

\* The calls that create, move or release a holder of a handle or a module's
\* owner.
Lifecycle ==
    \/ \E self \in BagToSet(engines) : clone(self)
    \/ \E self \in BagToSet(engines) : drop(self)
    \/ \E sym \in BagToSet(symbols) : Symbol_clone(sym)
    \/ \E sym \in BagToSet(symbols) : Symbol_drop(sym)
    \/ \E self \in BagToSet(engines), m \in Modules : add_module(self, m)
    \/ \E self \in BagToSet(engines), m \in Modules : remove_module(self, m)
    \/ \E self \in BagToSet(engines), name \in Names : get_function(self, name)

Next ==
    \/ Lifecycle
    \/ \E self \in BagToSet(engines), name \in Names : get_function_value(self, name)

Spec == Init /\ [][Next]_vars

\* The constructors on a raw handle and the target data query.
Construction ==
    \/ \E jit_mode \in BOOLEAN : new(Null, jit_mode)
    \/ \E float_type \in {Null, "f64"} : FloatType_new(float_type)
    \/ \E self \in BagToSet(engines) : get_target_data(self)

NextConstruction == Lifecycle \/ Construction

\* The lifecycle with constructions and target data queries in between.
SpecConstruction == Init /\ [][NextConstruction]_vars

\* The calls that are forwarded to the backend.
Forwarding ==
    \/ \E self \in BagToSet(engines) :
            add_global_mapping(self, FunctionRef("f1"), Address("f1"))
    \/ \E self \in BagToSet(engines) : free_fn_machine_code(self, FunctionRef("f1"))
    \/ \E self \in BagToSet(engines) : run_static_constructors(self)
    \/ \E self \in BagToSet(engines) : run_static_destructors(self)

NextForwarding == Lifecycle \/ Forwarding

\* The lifecycle with forwarded calls in between.
SpecForwarding == Init /\ [][NextForwarding]_vars

----------------------------------------------------------------------------
(* Drops of two holders, step by step *)

\* A check that also fires when one other reference is left.
ExecEngineInner_drop_check_le2(count) == count <= 2

\* if Rc::strong_count(&self.0) == 1
ExecEngineInner_drop_check(count) == count = 1

\* A holder is moved to thread t and its drop begins: impl Drop for
\* ExecutionEngine takes and forgets the target data.
drop_begin(t, self) ==
    /\ threads[t].pc = "idle"
    /\ self.target_data # None
    /\ engines' = Remove(engines, self)
    /\ threads' = [threads EXCEPT
                      ![t] = [pc |-> "check",
                              self |-> Some([self EXCEPT !.target_data = None]),
                              seen |-> 0]]
    /\ UNCHANGED <<llvm_feature, constructed, strong, disposed, symbols,
                   owned_by_ee, module, registered, last>>

\* impl Drop for ExecEngineInner on thread t: read the count, and dispose the
\* engine if it is 1.
ExecEngineInner_drop_read(t) ==
    /\ threads[t].pc = "check"
    /\ LET h == Unwrap(threads[t].self).execution_engine
       IN  /\ disposed' = [disposed EXCEPT
                              ![h] = IF ExecEngineInner_drop_check(strong[h])
                                     THEN @ + 1
                                     ELSE @]
           /\ threads' = [threads EXCEPT ![t].pc = "release", ![t].seen = strong[h]]
    /\ UNCHANGED <<llvm_feature, constructed, strong, engines, symbols,
                   owned_by_ee, module, registered, last>>

\* The drop of the Rc field on thread t: the count is decremented.
ExecEngineInner_drop_release(t) ==
    /\ threads[t].pc = "release"
    /\ LET h == Unwrap(threads[t].self).execution_engine
       IN  strong' = [strong EXCEPT ![h] = @ - 1]
    /\ threads' = [threads EXCEPT ![t].pc = "done"]
    /\ UNCHANGED <<llvm_feature, constructed, disposed, engines, symbols,
                   owned_by_ee, module, registered, last>>

NextConcurrent ==
    \/ \E self \in BagToSet(engines) : clone(self)
    \/ \E t \in Threads, self \in BagToSet(engines) : drop_begin(t, self)
    \/ \E t \in Threads : ExecEngineInner_drop_read(t)
    \/ \E t \in Threads : ExecEngineInner_drop_release(t)

SpecConcurrent == Init /\ [][NextConcurrent]_vars


----------------------------------------------------------------------------
(* Holders of a handle: the values that each own one Rc of it *)

EngineCount(h) ==
    LET S == {e \in BagToSet(engines) : e.execution_engine = h}
    IN  BagCardinality([e \in S |-> engines[e]])

SymbolCount(h) ==
    LET S == {y \in BagToSet(symbols) : y._execution_engine = h}
    IN  BagCardinality([y \in S |-> symbols[y]])

SlotCount(h) ==
    Cardinality({m \in Modules : \E e \in owned_by_ee[m] : e.execution_engine = h})

Holders(h) == EngineCount(h) + SymbolCount(h) + SlotCount(h)

----------------------------------------------------------------------------
(* Properties *)

\* C1: over any sequence of engine clones and drops, successful get_function
\* calls, Symbol clones and Symbol drops, LLVMDisposeExecutionEngine has been
\* called on a handle exactly once when no holder of it is left and not at
\* all while a holder exists: it fires at the drop of the last holder only.
C1_DisposedOnceAtLastDrop ==
    \A h \in Handles : disposed[h] = IF Holders(h) = 0 THEN 1 ELSE 0

\* A Symbol was the last holder and its drop disposed the engine.
C1_Witness ==
    /\ last.op = "Symbol_drop"
    /\ Holders(last.ee) = 0
    /\ disposed[last.ee] = 1

\* C2: while a Symbol is alive the engine it came from is not disposed,
\* whatever ExecutionEngine values have been dropped.
C2_SymbolKeepsEngineAlive ==
    \A h \in Handles : SymbolCount(h) > 0 => disposed[h] = 0

\* Every ExecutionEngine of the handle has been dropped, the last one just
\* now, and only a Symbol still holds it.
C2_Witness ==
    /\ last.op = "drop"
    /\ SymbolCount(last.ee) > 0
    /\ EngineCount(last.ee) = 0
    /\ SlotCount(last.ee) = 0
    /\ disposed[last.ee] = 0

\* The module argument's slot before and after the call that last' records.
SlotBefore == owned_by_ee[last'.m]
SlotAfter == owned_by_ee'[last'.m]

\* C3: add_module on a module whose slot is set, by whatever engine, returns
\* Err and leaves every slot as it was; a successful add_module finds the slot
\* unset; and a set slot changes only by being cleared in a successful
\* remove_module of that module, so two successful add_module calls on a
\* module have a successful remove_module between them.
C3_SingleOwnership ==
    [][ /\ (last'.op = "add_module" /\ SlotBefore # None)
            => (last'.result = "Err" /\ owned_by_ee' = owned_by_ee)
        /\ (last'.op = "add_module" /\ last'.result = "Ok")
            => (SlotBefore = None /\ SlotAfter # None)
        /\ \A m \in Modules :
            (owned_by_ee[m] # None /\ owned_by_ee'[m] # owned_by_ee[m])
            => /\ last'.op = "remove_module"
               /\ last'.m = m
               /\ last'.result = "Ok"
               /\ owned_by_ee'[m] = None
      ]_vars

\* The engine that owns the module called add_module on it again and failed.
C3_Witness ==
    /\ last.op = "add_module"
    /\ last.result = "Err"
    /\ \E e \in owned_by_ee[last.m] : e.execution_engine = last.ee

\* C4: remove_module returns ModuleNotOwned on an unset slot and
\* IncorrectModuleOwner on a slot naming another native handle, leaving the
\* slots unchanged in both cases, and returns Ok only when the slot names
\* the caller's native handle.
C4_OwnershipIdentity ==
    [][ last'.op = "remove_module" =>
        /\ SlotBefore = None
            => (last'.result = "ModuleNotOwned" /\ owned_by_ee' = owned_by_ee)
        /\ (\E e \in SlotBefore : e.execution_engine # last'.ee)
            => (last'.result = "IncorrectModuleOwner" /\ owned_by_ee' = owned_by_ee)
        /\ last'.result = "Ok"
            => (\E e \in SlotBefore : e.execution_engine = last'.ee)
      ]_vars

\* add_module(m) on A succeeded, add_module(m) on B failed (which is how m came
\* to be added to B at the native layer), and remove_module(m) on B has just
\* returned IncorrectModuleOwner.
C4_Witness ==
    /\ last.op = "remove_module"
    /\ last.result = "IncorrectModuleOwner"
    /\ last.m \in registered[last.ee]
    /\ \E e \in owned_by_ee[last.m] : e.execution_engine # last.ee

\* C5: a module is registered at the native layer with no engine other than
\* the one recorded in its ownership slot.
C5_NoDoubleClaim ==
    \A h \in Handles : \A m \in registered[h] :
        \E e \in owned_by_ee[m] : e.execution_engine = h

\* C6: on an engine whose jit_mode is false, get_function and
\* get_function_value return JITNotEnabled for every name, having made no
\* native call.
C6_JitGating ==
    (last.op \in {"get_function", "get_function_value"} /\ ~last.jit)
        => (last.result = "JITNotEnabled" /\ last.native = <<>>)

\* Both lookups were refused on the interpreter engine for a name its backend
\* knows.
C6_Witness ==
    /\ last.op \in {"get_function", "get_function_value"}
    /\ ~last.jit
    /\ Known(last.ee, last.name)
    /\ last.result = "JITNotEnabled"

\* The native calls of the last call, by name.
NativeNames == {last.native[i].fn : i \in 1..Len(last.native)}

\* get_function of a name the backend does not know, on a JIT engine.
LookupMiss ==
    /\ last.op = "get_function"
    /\ last.jit
    /\ ~Known(last.ee, last.name)

\* C7 as stated: a lookup miss returns FunctionNotFound after the descriptor
\* lookup, and native address resolution is never invoked for the name.
C7_DescriptorAlwaysFirst ==
    LookupMiss =>
        /\ last.result = "FunctionNotFound"
        /\ NativeNames = {"LLVMFindFunction"}

\* C7, amended: a lookup miss returns FunctionNotFound and never crashes; in
\* builds with the llvm5-0 or llvm6-0 feature the descriptor lookup alone is
\* made, and in the other builds the address resolution alone is made and its
\* zero address is reported.
C7_LookupMiss ==
    LookupMiss =>
        /\ last.result = "FunctionNotFound"
        /\ NativeNames = IF llvm_feature \in {"llvm5-0", "llvm6-0"}
                         THEN {"LLVMFindFunction"}
                         ELSE {"LLVMGetFunctionAddress"}

\* A lookup miss in a build for llvm 5.0, where the address resolution would
\* have crashed.
C7_Witness ==
    /\ LookupMiss
    /\ llvm_feature = "llvm5-0"
    /\ last.result = "FunctionNotFound"

\* The native removal was attempted and reported failure.
RemovalFailed ==
    /\ last'.op = "remove_module"
    /\ last'.native # <<>>
    /\ last'.native[1].code = 1

\* C8: when the native removal reports failure remove_module returns
\* LLVMError and leaves the ownership slots and the native refs as they
\* were; it returns Ok only if the native removal returned success.
C8_FailedRemovalLeavesModule ==
    [][ /\ RemovalFailed
            => /\ last'.result = "LLVMError"
               /\ owned_by_ee' = owned_by_ee
               /\ module' = module
               /\ \E e \in SlotAfter : e.execution_engine = last'.ee
        /\ (last'.op = "remove_module" /\ last'.result = "Ok")
            => (last'.native # <<>> /\ last'.native[1].code = 0)
      ]_vars

\* A removal by the owner failed in the backend; the module is still owned.
C8_Witness ==
    /\ last.op = "remove_module"
    /\ last.result = "LLVMError"
    /\ \E e \in owned_by_ee[last.m] : e.execution_engine = last.ee

\* C9: a successful remove_module leaves the module with the ref the backend
\* returned and an unset slot; the slot stays unset until an add_module, and
\* add_module on an unset slot succeeds for whichever engine calls it and
\* records that engine.
C9_RemovedModuleCanBeAdopted ==
    [][ /\ (last'.op = "remove_module" /\ last'.result = "Ok")
            => /\ module'[last'.m] = last'.native[1].out
               /\ SlotAfter = None
        /\ (last'.op = "add_module" /\ SlotBefore = None)
            => /\ last'.result = "Ok"
               /\ \E e \in SlotAfter : e.execution_engine = last'.ee
        /\ \A m \in Modules :
            (owned_by_ee[m] = None /\ owned_by_ee'[m] # None)
            => (last'.op = "add_module" /\ last'.m = m)
      ]_vars

\* A module that was removed (it carries the detached ref) has been adopted
\* again, and the backend was handed the detached ref.
C9_Witness ==
    /\ last.op = "add_module"
    /\ last.result = "Ok"
    /\ module[last.m] = DetachedRef(last.m)
    /\ last.native[1].out = DetachedRef(last.m)

\* Every ExecutionEngine value there is: the caller's and the slots'.
AllEngines == BagToSet(engines) \cup UNION {owned_by_ee[m] : m \in Modules}

\* C10: every ExecutionEngine value, clones and the clones in ownership slots
\* included, has the jit_mode its handle was constructed with.
C10_JitModeFixed ==
    \A e \in AllEngines : e.jit_mode = constructed[e.execution_engine]

\* The interpreter engine has been cloned twice over, once into a slot.
C10_Witness ==
    \E h \in Handles :
        /\ ~constructed[h]
        /\ EngineCount(h) >= 2
        /\ SlotCount(h) >= 1

\* The steps and native calls of the last call, by name and in order.
NativeSeq == [i \in 1..Len(last.native) |-> last.native[i].fn]

\* C11: every ExecutionEngine value there is, the clones and the clones in
\* ownership slots included, has its target data, so get_target_data does not
\* hit its assertion; the target data is taken only inside a drop.
C11_TargetDataPresent ==
    /\ \A e \in AllEngines : e.target_data # None
    /\ last.op = "get_target_data" => last.result = "Ok"
    /\ "Option::take" \in NativeNames
        => (last.op = "drop" \/ (last.op = "remove_module" /\ last.result = "Ok"))

\* The target data was read from an engine that has a clone and a clone in a
\* module's slot.
C11_Witness ==
    /\ last.op = "get_target_data"
    /\ last.result = "Ok"
    /\ EngineCount(last.ee) >= 2
    /\ SlotCount(last.ee) >= 1

\* C12: ExecutionEngine::new and FloatType::new on a null handle end in the
\* assertion failure and return a value only for a non-null handle, clone
\* goes through the same assertion, and no ExecutionEngine wraps a null
\* handle.
C12_NullHandleAsserts ==
    /\ \A e \in AllEngines : e.execution_engine # Null
    /\ last.op \in {"ExecutionEngine::new", "FloatType::new"}
        => last.result = IF last.raw = Null THEN "panic" ELSE "Ok"
    /\ last.op = "clone" => NativeSeq[1] = "assert_non_null"

\* ExecutionEngine::new was called on a null handle and panicked.
C12_Witness ==
    /\ last.op = "ExecutionEngine::new"
    /\ last.raw = Null
    /\ last.result = "panic"

\* C13: add_module hands the module to the backend for the calling engine
\* whatever the slot says; when the slot is set it returns Err with the slots
\* unchanged and the module still registered with the calling engine.
C13_RegisteredBeforeCheck ==
    [][ last'.op = "add_module" =>
        /\ Len(last'.native) >= 1
        /\ last'.native[1].fn = "LLVMAddModule"
        /\ last'.m \in registered'[last'.ee]
        /\ last'.result = "Err" => (SlotBefore # None /\ owned_by_ee' = owned_by_ee)
      ]_vars

\* add_module failed on an engine that does not own the module, and the
\* backend has the module registered with that engine.
C13_Witness ==
    /\ last.op = "add_module"
    /\ last.result = "Err"
    /\ last.m \in registered[last.ee]
    /\ \E e \in owned_by_ee[last.m] : e.execution_engine # last.ee

EngineDropped ==
    \/ last.op = "drop"
    \/ last.op = "remove_module" /\ last.result = "Ok"

\* C15: in every drop of an ExecutionEngine the target data is forgotten
\* before the handle reference is released and before any native disposal,
\* and the target data's own release routine never runs.
C15_TargetDataForgottenFirst ==
    /\ "TargetData::drop" \notin NativeNames
    /\ EngineDropped =>
        \E i \in 1..Len(last.native) :
            /\ NativeSeq[i] = "forget"
            /\ \E j \in 1..Len(last.native) : NativeSeq[j] = "ExecEngineInner::drop"
            /\ \A j \in 1..Len(last.native) :
                NativeSeq[j] \in {"ExecEngineInner::drop", "LLVMDisposeExecutionEngine"}
                    => i < j

\* The drop of the last holder disposed the engine.
C15_Witness ==
    /\ last.op = "drop"
    /\ "forget" \in NativeNames
    /\ "LLVMDisposeExecutionEngine" \in NativeNames

\* C16: when remove_module returns ModuleNotOwned or IncorrectModuleOwner it
\* has made no native call, and the backend's registrations and the native
\* refs are as they were.
C16_ValidatedBeforeBackend ==
    [][ (last'.op = "remove_module"
            /\ last'.result \in {"ModuleNotOwned", "IncorrectModuleOwner"})
        => /\ last'.native = <<>>
           /\ registered' = registered
           /\ module' = module
      ]_vars

\* A removal was refused for the wrong owner and the owner's registration is
\* intact.
C16_Witness ==
    /\ last.op = "remove_module"
    /\ last.result = "IncorrectModuleOwner"
    /\ last.native = <<>>
    /\ \E e \in owned_by_ee[last.m] : last.m \in registered[e.execution_engine]

\* C17: on a JIT engine get_function_value makes the descriptor lookup and
\* returns Ok exactly when the code is 0 and the descriptor non-null, and
\* FunctionNotFound otherwise.
C17_FunctionValueResult ==
    (last.op = "get_function_value" /\ last.jit) =>
        /\ NativeSeq = <<"LLVMFindFunction">>
        /\ last.result = IF last.native[1].code = 0 /\ last.native[1].out # 0
                         THEN "Ok"
                         ELSE "FunctionNotFound"

\* The descriptor of a function the engine has was returned.
C17_Witness ==
    /\ last.op = "get_function_value"
    /\ last.result = "Ok"
    /\ last.native[1].code = 0
    /\ last.native[1].out = FunctionRef(last.name)

ForwardingOps ==
    {"free_fn_machine_code", "add_global_mapping", "run_static_constructors",
     "run_static_destructors"}

\* C18: the forwarded calls make their one native call and leave the
\* reference counts, the disposals, the engine values with their jit_mode,
\* the Symbols and the ownership slots unchanged.
C18_ForwardingChangesNothing ==
    [][ last'.op \in ForwardingOps =>
        /\ Len(last'.native) = 1
        /\ strong' = strong
        /\ disposed' = disposed
        /\ engines' = engines
        /\ symbols' = symbols
        /\ owned_by_ee' = owned_by_ee
      ]_vars

\* The machine code of a function was freed while a Symbol of the engine was
\* alive, and the engine is not disposed.
C18_Witness ==
    /\ last.op = "free_fn_machine_code"
    /\ SymbolCount(last.ee) > 0
    /\ disposed[last.ee] = 0

\* The threads whose drop is of a holder of handle h and is at one of pcs.
DropsAt(h, pcs) ==
    {t \in Threads : /\ threads[t].pc \in pcs
                     /\ \E e \in threads[t].self : e.execution_engine = h}

C20_SlotKeepsEngineAlive ==
    \A m \in Modules : \A e \in owned_by_ee[m] : disposed[e.execution_engine] = 0

\* The caller dropped its last ExecutionEngine and holds no Symbol; only a
\* module's slot still holds the handle.
C20_Witness ==
    /\ last.op = "drop"
    /\ SlotCount(last.ee) >= 1
    /\ EngineCount(last.ee) = 0
    /\ SymbolCount(last.ee) = 0
    /\ disposed[last.ee] = 0

\* The error values add_module, remove_module, get_function and
\* get_function_value return.
Errors ==
    {"Err", "ModuleNotOwned", "IncorrectModuleOwner", "LLVMError", "JITNotEnabled",
     "FunctionNotFound"}

\* C21: an add_module, remove_module, get_function or get_function_value
\* that returns an error leaves every handle's reference count as it was and
\* disposes no engine.
C21_FailedCallsKeepCount ==
    [][ (/\ last'.op \in {"add_module", "remove_module", "get_function",
                          "get_function_value"}
         /\ last'.result \in Errors)
        => /\ strong' = strong
           /\ disposed' = disposed
           /\ engines' = engines
           /\ symbols' = symbols
      ]_vars

\* add_module was refused on an engine whose handle has one reference, the
\* caller's own.
C21_Witness ==
    /\ last.op = "add_module"
    /\ last.result = "Err"
    /\ strong[last.ee] = 1
    /\ disposed[last.ee] = 0

\* C22: a successful add_module(m) adds one to the count of the engine's
\* handle and disposes nothing, and a successful remove_module(m) that
\* follows it at once, on the engine or a clone of it, clears m's slot, takes
\* that one reference back and disposes nothing: the count is what it was
\* before the add_module.
C22_AddRemoveRoundTrip ==
    [][ /\ (last'.op = "add_module" /\ last'.result = "Ok")
            => /\ SlotBefore = None
               /\ strong' = [strong EXCEPT ![last'.ee] = @ + 1]
               /\ disposed' = disposed
        /\ (/\ last.op = "add_module" /\ last.result = "Ok"
            /\ last'.op = "remove_module" /\ last'.result = "Ok"
            /\ last'.m = last.m)
            => /\ last'.ee = last.ee
               /\ SlotAfter = None
               /\ strong' = [strong EXCEPT ![last.ee] = @ - 1]
               /\ strong'[last.ee] >= 1
               /\ disposed' = disposed
               /\ engines' = engines
      ]_vars

\* A module was added to an engine and removed again: its slot is unset and
\* the caller's one engine value is the only holder of the handle.
C22_Witness ==
    /\ last.op = "remove_module"
    /\ last.result = "Ok"
    /\ owned_by_ee[last.m] = None
    /\ strong[last.ee] = 1
    /\ EngineCount(last.ee) = 1
    /\ disposed[last.ee] = 0

====
